---- MODULE Spec2Model ----
(***************************************************************************)
(* IS20 token canister: the transfer engine, batch transfer, mint / burn,  *)
(* claims and the dedup validator of src/token/api/src/canister/           *)
(* is20_transactions.rs, the record constructors of types/tx_record.rs and *)
(* the canister init of src/token/impl/src/canister.rs.                    *)
(*                                                                         *)
(* Amounts are Tokens128 values scaled down: MaxTokens plays u128::MAX, so *)
(* checked additions really overflow.  Time is counted in units in which   *)
(* TX_WINDOW is 2 and PERMITTED_DRIFT is 1.                                *)
(***************************************************************************)
EXTENDS Integers, Sequences, FiniteSets, TLC

VARIABLES
    balances,   \* CanisterState.balances: Account -> Tokens128, stored keys only
    ledger,     \* CanisterState.ledger: sequence of TxRecord
    claims,     \* CanisterState.claims: AccountIdentifier -> Tokens128
    stats,      \* fee, fee_to (StatsData) and bidding_state.fee_ratio
    now,        \* ic::time()
    result,     \* the last call: operation, arguments, returned value
    supply,     \* history: total minted minus total burned
    credited,   \* history: per legacy id, total credited by mint_to_accountid
    claimed,    \* history: per legacy id, total minted through claim
    accepted,   \* history: the accepted transfers that supplied created_at_time
    token_wasm, \* factory State.token_wasm: the token bytecode, once set
    inbox,      \* factory: messages accepted by inspect_message, not yet executed
    inspected   \* factory: the last message inspected and the verdict on it

vars == <<balances, ledger, claims, stats, now, result, supply, credited, claimed,
          accepted, token_wasm, inbox, inspected>>

----------------------------------------------------------------------------
(* Bounds *)

MaxTokens == 3      \* stands for the largest Tokens128 value
MaxLedger == 3      \* calls are cut off once the ledger holds this many records
MaxBatch == 2       \* legs per batch_transfer call
MaxTime == 4        \* the clock stops advancing here
MaxCredit == 1      \* total credited to one legacy id by mint_to_accountid
MaxInbox == 3       \* messages accepted by the factory and not yet executed

(* Program constants, in model time units *)
TX_WINDOW == 2
PERMITTED_DRIFT == 1

----------------------------------------------------------------------------
(* Option<T>: None is the empty sequence, Some(x) the one-element sequence *)

None == <<>>
Some(x) == <<x>>
unwrap_or(o, d) == IF o = None THEN d ELSE o[1]

(* Tokens128 with checked arithmetic *)

Tokens == 0..MaxTokens

checked_add(a, b) == IF a + b > MaxTokens THEN None ELSE Some(a + b)
checked_sub(a, b) == IF a < b THEN None ELSE Some(a - b)

(* u64::saturating_sub *)
saturating_sub(a, b) == IF a < b THEN 0 ELSE a - b

----------------------------------------------------------------------------
(* Principals, accounts, legacy account identifiers *)

Principals == {"alice", "bob"}
Owner == "alice"

Account_new(owner, subaccount) == [owner |-> owner, subaccount |-> subaccount]

auction_account == Account_new("auction", None)

(* AccountIdentifier::new(owner, Some(sub)): injective in (owner, sub) *)
AccountIdentifier_new(owner, sub) == <<owner, sub>>

DEFAULT_SUBACCOUNT == 0

----------------------------------------------------------------------------
(* Balances *)

EmptyBalances == [a \in {} |-> 0]

balance_of(b, account) == IF account \in DOMAIN b THEN b[account] ELSE 0

insert(b, account, amount) ==
    [a \in DOMAIN b \cup {account} |-> IF a = account THEN amount ELSE b[a]]

remove(b, account) == [a \in DOMAIN b \ {account} |-> b[a]]

(* the Balances Store's set: a zero amount removes the entry *)
set_balance(b, account, amount) ==
    IF amount = 0 THEN remove(b, account) ELSE insert(b, account, amount)

get_mut_or_insert_default(b, account) ==
    IF account \in DOMAIN b THEN b ELSE insert(b, account, 0)

(* a staged diff is a partial mapping that holds the balance of every     *)
(* account staged in it, zero included                                     *)
stage(updates, account, amount) == insert(updates, account, amount)

merge(staged, updates) ==
    [a \in DOMAIN staged \cup DOMAIN updates |->
        IF a \in DOMAIN updates THEN updates[a] ELSE staged[a]]

RECURSIVE apply_entries(_, _, _)
apply_entries(b, change, todo) ==
    IF todo = {} THEN b
    ELSE LET a == CHOOSE x \in todo : TRUE
         IN apply_entries(set_balance(b, a, change[a]), change, todo \ {a})

(* merges the diff into the store entry by entry *)
apply_change(b, change) == apply_entries(b, change, DOMAIN change)

RECURSIVE SumOver(_, _)
SumOver(b, todo) ==
    IF todo = {} THEN 0
    ELSE LET a == CHOOSE x \in todo : TRUE
         IN b[a] + SumOver(b, todo \ {a})

SumBalances(b) == SumOver(b, DOMAIN b)

----------------------------------------------------------------------------
(* Fee policy *)

(* FeeRatio::get_value: (owner_fee, auction_fee); the auction share is     *)
(* rounded down and the remainder stays with the fee recipient            *)
get_value(ratio, fee) ==
    LET auction_fee == (fee * ratio[1]) \div ratio[2]
    IN <<fee - auction_fee, auction_fee>>

----------------------------------------------------------------------------
(* Results: TxReceipt = Result<TxId, TxError> *)

Ok(v) == [kind |-> "Ok", val |-> v]
Err(kind, v) == [kind |-> kind, val |-> v]

----------------------------------------------------------------------------
(* Transfer engine *)

(* transfer_internal up to its commit: the staged diff of the four         *)
(* accounts, or the error                                                  *)
transfer_staged_aliased(b, from, to, amount, fee, fee_to, auction_fee_ratio) ==
    \* reads every balance from the store, not from the staged diff
    LET amount_with_fee == checked_add(amount, fee)
        fees == get_value(auction_fee_ratio, fee)
    IN  IF amount_with_fee = None \/ balance_of(b, from) < amount_with_fee[1]
        THEN Err("InsufficientFunds", balance_of(b, from))
        ELSE IF \/ balance_of(b, to) + amount > MaxTokens
                \/ balance_of(b, fee_to) + fees[1] > MaxTokens
                \/ balance_of(b, auction_account) + fees[2] > MaxTokens
        THEN Err("AmountOverflow", 0)
        ELSE Ok(stage(stage(stage(stage(EmptyBalances,
                from, balance_of(b, from) - amount_with_fee[1]),
                to, balance_of(b, to) + amount),
                fee_to, balance_of(b, fee_to) + fees[1]),
                auction_account, balance_of(b, auction_account) + fees[2]))

(* the steps of transfer_internal on the staged diff `updates`, last first *)
credit_auction(updates, auction_fee) ==
    LET auction_balance == balance_of(updates, auction_account)
        updated_auction_balance == checked_add(auction_balance, auction_fee)
    IN  IF updated_auction_balance = None
        THEN Err("AmountOverflow", 0)
        ELSE Ok(stage(updates, auction_account, updated_auction_balance[1]))

credit_fee_to_whole_fee(updates, fee_to, fees) ==
    \* credits the fee recipient with the whole fee and the escrow with its share
    LET fee_to_balance == balance_of(updates, fee_to)
        updated_fee_to_balance == checked_add(fee_to_balance, fees[1] + fees[2])
    IN  IF updated_fee_to_balance = None
        THEN Err("AmountOverflow", 0)
        ELSE credit_auction(stage(updates, fee_to, updated_fee_to_balance[1]), fees[2])

credit_fee_to(updates, fee_to, fees) ==
    LET fee_to_balance == balance_of(updates, fee_to)
        updated_fee_to_balance == checked_add(fee_to_balance, fees[1])
    IN  IF updated_fee_to_balance = None
        THEN Err("AmountOverflow", 0)
        ELSE credit_auction(stage(updates, fee_to, updated_fee_to_balance[1]), fees[2])

credit_to(updates, to, amount, fee, fee_to, auction_fee_ratio) ==
    LET to_balance == balance_of(updates, to)
        updated_to_balance == checked_add(to_balance, amount)
    IN  IF updated_to_balance = None
        THEN Err("AmountOverflow", 0)
        ELSE credit_fee_to(stage(updates, to, updated_to_balance[1]), fee_to,
                           get_value(auction_fee_ratio, fee))

debit_from_wrapping(updates, from, to, amount, fee, fee_to, auction_fee_ratio) ==
    \* adds amount and fee modulo the size of the amount range
    LET from_balance == balance_of(updates, from)
        amount_with_fee == (amount + fee) % (MaxTokens + 1)
        updated_from_balance == checked_sub(from_balance, amount_with_fee)
    IN  IF updated_from_balance = None
        THEN Err("InsufficientFunds", from_balance)
        ELSE credit_to(stage(updates, from, updated_from_balance[1]), to, amount,
                       fee, fee_to, auction_fee_ratio)

debit_from(updates, from, to, amount, fee, fee_to, auction_fee_ratio) ==
    LET from_balance == balance_of(updates, from)
        amount_with_fee == checked_add(amount, fee)
        updated_from_balance ==
            IF amount_with_fee = None THEN None
            ELSE checked_sub(from_balance, amount_with_fee[1])
    IN  IF updated_from_balance = None
        THEN Err("InsufficientFunds", from_balance)
        ELSE credit_to(stage(updates, from, updated_from_balance[1]), to, amount,
                       fee, fee_to, auction_fee_ratio)

transfer_staged(b, from, to, amount, fee, fee_to, auction_fee_ratio) ==
    debit_from(stage(stage(stage(stage(EmptyBalances,
                    from, balance_of(b, from)),
                    to, balance_of(b, to)),
                    fee_to, balance_of(b, fee_to)),
                    auction_account, balance_of(b, auction_account)),
               from, to, amount, fee, fee_to, auction_fee_ratio)

(* transfer_internal on the Balances Store: [res, balances] *)
transfer_internal_early(b, from, to, amount, fee, fee_to, auction_fee_ratio) ==
    \* debits the sender in the store before the credit checks
    LET r == transfer_staged(b, from, to, amount, fee, fee_to, auction_fee_ratio)
    IN  IF r.kind = "Ok"
        THEN [res |-> Ok(0), balances |-> apply_change(b, r.val)]
        ELSE IF r.kind = "AmountOverflow"
        THEN [res |-> r,
              balances |-> set_balance(b, from, balance_of(b, from) - (amount + fee))]
        ELSE [res |-> r, balances |-> b]

(* balances.apply_change(&updates), reached only with every check passed *)
commit(b, r) ==
    IF r.kind = "Ok"
    THEN [res |-> Ok(0), balances |-> apply_change(b, r.val)]
    ELSE [res |-> r, balances |-> b]

transfer_internal(b, from, to, amount, fee, fee_to, auction_fee_ratio) ==
    commit(b, transfer_staged(b, from, to, amount, fee, fee_to, auction_fee_ratio))

----------------------------------------------------------------------------
(* Transaction records and the ledger *)

(* the constructors of tx_record.rs; timestamp stands for the ic::time()   *)
(* they read                                                               *)
TxRecord_transfer(index, from, to, amount, fee, timestamp) ==
    [caller |-> Some(from), index |-> index, from |-> from, to |-> to,
     amount |-> amount, fee |-> fee, timestamp |-> timestamp,
     status |-> "Succeeded", operation |-> "Transfer"]

TxRecord_mint(index, from, to, amount, timestamp) ==
    [caller |-> Some(from), index |-> index, from |-> from, to |-> to,
     amount |-> amount, fee |-> 0, timestamp |-> timestamp,
     status |-> "Succeeded", operation |-> "Mint"]

TxRecord_burn_failed(index, caller, from, amount, timestamp) ==
    \* a burn record that does not say it succeeded
    [caller |-> Some(caller), index |-> index, from |-> from, to |-> from,
     amount |-> amount, fee |-> 0, timestamp |-> timestamp,
     status |-> "Failed", operation |-> "Burn"]

TxRecord_burn(index, caller, from, amount, timestamp) ==
    [caller |-> Some(caller), index |-> index, from |-> from, to |-> from,
     amount |-> amount, fee |-> 0, timestamp |-> timestamp,
     status |-> "Succeeded", operation |-> "Burn"]

(* Ledger: the next index is the number of records appended so far.  The   *)
(* records carry the memo field that validate_and_get_tx_ts reads: a       *)
(* transfer's record keeps the memo and the created_at_time handed to      *)
(* Ledger::transfer, as its memo and timestamp; mints and burns, which are *)
(* handed neither, have no memo and the current time.                      *)
next_id(l) == Len(l)

ledger_transfer(l, from, to, amount, fee, memo, created_at) ==
    Append(l, [memo |-> memo]
                @@ TxRecord_transfer(next_id(l), from, to, amount, fee, created_at))

ledger_mint(l, from, to, amount, time) ==
    Append(l, [memo |-> None] @@ TxRecord_mint(next_id(l), from, to, amount, time))

ledger_burn(l, caller, from, amount, time) ==
    Append(l, [memo |-> None] @@ TxRecord_burn(next_id(l), caller, from, amount, time))

RECURSIVE ledger_batch_transfer(_, _, _, _, _)
ledger_batch_transfer(l, from, transfers, fee, time) ==
    IF transfers = <<>> THEN l
    ELSE ledger_batch_transfer(
            ledger_transfer(l, from, Head(transfers).receiver,
                            Head(transfers).amount, fee, None, time),
            from, Tail(transfers), fee, time)

----------------------------------------------------------------------------
(* Dedup / timestamp validator *)

(* the newest-first scan of validate_and_get_tx_ts, from position i down *)
RECURSIVE scan(_, _, _, _, _)
scan(l, i, time, from, transfer_args) ==
    IF i = 0 THEN None
    ELSE LET tx == l[i]
         IN  IF saturating_sub(time, tx.timestamp) > TX_WINDOW THEN None
             ELSE IF /\ tx.timestamp = transfer_args.created_at_time[1]
                     /\ tx.from = from
                     /\ tx.to = transfer_args.to
                     /\ tx.memo = transfer_args.memo
                     /\ tx.amount = transfer_args.amount
                     /\ tx.fee = unwrap_or(transfer_args.fee, tx.fee)
             THEN Some(tx.index)
             ELSE scan(l, i - 1, time, from, transfer_args)

validate_and_get_tx_ts_closed_window(l, time, caller, transfer_args) ==
    \* rejects a created_at_time that is exactly TX_WINDOW old
    LET from == Account_new(caller, transfer_args.from_subaccount)
    IN  IF transfer_args.created_at_time = None THEN Ok(time)
        ELSE
    LET created_at_time == transfer_args.created_at_time[1]
    IN  IF saturating_sub(time, created_at_time) >= TX_WINDOW
        THEN Err("TooOld", TX_WINDOW)
        ELSE IF saturating_sub(created_at_time, time) > PERMITTED_DRIFT
        THEN Err("CreatedInFuture", time)
        ELSE
    LET dup == scan(l, Len(l), time, from, transfer_args)
    IN  IF dup # None THEN Err("Duplicate", dup[1]) ELSE Ok(created_at_time)

validate_and_get_tx_ts_always_scans(l, time, caller, transfer_args) ==
    \* treats an omitted created_at_time as the current time and scans for it
    LET from == Account_new(caller, transfer_args.from_subaccount)
        created_at_time == unwrap_or(transfer_args.created_at_time, time)
    IN  IF saturating_sub(time, created_at_time) > TX_WINDOW
        THEN Err("TooOld", TX_WINDOW)
        ELSE IF saturating_sub(created_at_time, time) > PERMITTED_DRIFT
        THEN Err("CreatedInFuture", time)
        ELSE
    LET dup == scan(l, Len(l), time, from,
                    [transfer_args EXCEPT !.created_at_time = Some(created_at_time)])
    IN  IF dup # None THEN Err("Duplicate", dup[1]) ELSE Ok(created_at_time)

validate_and_get_tx_ts(l, time, caller, transfer_args) ==
    LET from == Account_new(caller, transfer_args.from_subaccount)
    IN  IF transfer_args.created_at_time = None THEN Ok(time)
        ELSE
    LET created_at_time == transfer_args.created_at_time[1]
    IN  IF saturating_sub(time, created_at_time) > TX_WINDOW
        THEN Err("TooOld", TX_WINDOW)
        ELSE IF saturating_sub(created_at_time, time) > PERMITTED_DRIFT
        THEN Err("CreatedInFuture", time)
        ELSE
    LET dup == scan(l, Len(l), time, from, transfer_args)
    IN  IF dup # None THEN Err("Duplicate", dup[1]) ELSE Ok(created_at_time)

----------------------------------------------------------------------------
(* The operations, as functions of the canister state: each yields the     *)
(* returned value and the state it leaves                                  *)

TransferArgs(from_subaccount, to, amount, fee, memo, created_at_time) ==
    [from_subaccount |-> from_subaccount, to |-> to, amount |-> amount,
     fee |-> fee, memo |-> memo, created_at_time |-> created_at_time]

with_amount(transfer_args, amount) == [transfer_args EXCEPT !.amount = amount]

append_transfer_next_index(l, st, from, to, transfer, created_at_time, t) ==
    \* returns the index the following record will get
    IF t.res.kind # "Ok"
    THEN [res |-> t.res, balances |-> t.balances, ledger |-> l]
    ELSE [res |-> Ok(next_id(l) + 1), balances |-> t.balances,
          ledger |-> ledger_transfer(l, from, to, transfer.amount, st.fee,
                                     transfer.memo, created_at_time)]

(* is20_transfer after transfer_internal returned t: the ledger append *)
append_transfer(l, st, from, to, transfer, created_at_time, t) ==
    IF t.res.kind # "Ok"
    THEN [res |-> t.res, balances |-> t.balances, ledger |-> l]
    ELSE [res |-> Ok(next_id(l)), balances |-> t.balances,
          ledger |-> ledger_transfer(l, from, to, transfer.amount, st.fee,
                                     transfer.memo, created_at_time)]

fee_checked_last(l, st, from, to, transfer, created_at_time, t) ==
    \* compares the expected fee only after the balances have been updated
    IF t.res.kind # "Ok"
    THEN [res |-> t.res, balances |-> t.balances, ledger |-> l]
    ELSE IF transfer.fee # None /\ st.fee # transfer.fee[1]
    THEN [res |-> Err("BadFee", st.fee), balances |-> t.balances, ledger |-> l]
    ELSE append_transfer(l, st, from, to, transfer, created_at_time, t)

transfer_validated_funds_first(b, l, st, from, to, transfer, v) ==
    IF v.kind # "Ok" THEN [res |-> v, balances |-> b, ledger |-> l]
    ELSE fee_checked_last(l, st, from, to, transfer, v.val,
            transfer_internal(b, from, to, transfer.amount, st.fee,
                              Account_new(st.fee_to, None), st.fee_ratio))

(* is20_transfer after validate_and_get_tx_ts returned v *)
transfer_validated(b, l, st, from, to, transfer, v) ==
    IF v.kind # "Ok" THEN [res |-> v, balances |-> b, ledger |-> l]
    ELSE IF transfer.fee # None /\ st.fee # transfer.fee[1]
    THEN [res |-> Err("BadFee", st.fee), balances |-> b, ledger |-> l]
    ELSE append_transfer(l, st, from, to, transfer, v.val,
            transfer_internal(b, from, to, transfer.amount, st.fee,
                              Account_new(st.fee_to, None), st.fee_ratio))

is20_transfer(b, l, st, time, from, to, transfer) ==
    transfer_validated(b, l, st, from, to, transfer,
                       validate_and_get_tx_ts(l, time, from.owner, transfer))

transfer_include_fee_no_zero_check(b, l, st, time, from, to, transfer_args) ==
    \* accepts a gross amount equal to the fee
    LET adjusted_amount == checked_sub(transfer_args.amount, st.fee)
    IN  IF adjusted_amount = None
        THEN [res |-> Err("AmountTooSmall", 0), balances |-> b, ledger |-> l]
        ELSE is20_transfer(b, l, st, time, from, to,
                           with_amount(transfer_args, adjusted_amount[1]))

transfer_include_fee(b, l, st, time, from, to, transfer_args) ==
    LET adjusted_amount == checked_sub(transfer_args.amount, st.fee)
    IN  IF adjusted_amount = None \/ adjusted_amount = Some(0)
        THEN [res |-> Err("AmountTooSmall", 0), balances |-> b, ledger |-> l]
        ELSE is20_transfer(b, l, st, time, from, to,
                           with_amount(transfer_args, adjusted_amount[1]))

mint_saturating(b, l, time, caller, to, amount) ==
    \* credits up to the largest amount instead of failing
    [res |-> Ok(next_id(l)),
     balances |-> insert(b, to, IF balance_of(b, to) + amount > MaxTokens
                                THEN MaxTokens ELSE balance_of(b, to) + amount),
     ledger |-> ledger_mint(l, Account_new(caller, None), to, amount, time)]

(* mint with `b` holding the entry get_mut_or_insert_default returned *)
mint_into(b, l, time, caller, to, amount, new_balance) ==
    IF new_balance = None
    THEN [res |-> Err("AmountOverflow", 0), balances |-> b, ledger |-> l]
    ELSE [res |-> Ok(next_id(l)),
          balances |-> insert(b, to, new_balance[1]),
          ledger |-> ledger_mint(l, Account_new(caller, None), to, amount, time)]

mint(b, l, time, caller, to, amount) ==
    mint_into(get_mut_or_insert_default(b, to), l, time, caller, to, amount,
              checked_add(balance_of(b, to), amount))

burn_saturating(b, l, time, caller, from, amount) ==
    \* burns what there is when the amount exceeds the balance
    [res |-> Ok(next_id(l)),
     balances |-> set_balance(b, from, saturating_sub(balance_of(b, from), amount)),
     ledger |-> ledger_burn(l, Account_new(caller, None), from, amount, time)]

burn_rejects_empty(b, l, time, caller, from, amount) ==
    \* refuses any burn from an account without funds, a burn of zero included
    IF balance_of(b, from) = 0 \/ balance_of(b, from) < amount
    THEN [res |-> Err("InsufficientFunds", balance_of(b, from)),
          balances |-> b, ledger |-> l]
    ELSE [res |-> Ok(next_id(l)),
          balances |-> set_balance(b, from, balance_of(b, from) - amount),
          ledger |-> ledger_burn(l, Account_new(caller, None), from, amount, time)]

burn(b, l, time, caller, from, amount) ==
    LET balance == balance_of(b, from)
    IN  IF amount # 0 /\ balance = 0
        THEN [res |-> Err("InsufficientFunds", balance), balances |-> b, ledger |-> l]
        ELSE
    LET new_balance == checked_sub(balance, amount)
    IN  IF new_balance = None
        THEN [res |-> Err("InsufficientFunds", balance), balances |-> b, ledger |-> l]
        ELSE [res |-> Ok(next_id(l)),
              balances |-> IF new_balance[1] = 0 THEN remove(b, from)
                           ELSE set_balance(b, from, new_balance[1]),
              ledger |-> ledger_burn(l, Account_new(caller, None), from, amount, time)]

(* Claims *)

EmptyClaims == [a \in {} |-> 0]

claim_amount(c, account) == IF account \in DOMAIN c THEN c[account] ELSE 0

mint_to_accountid(c, to, amount) ==
    LET c1 == IF to \in DOMAIN c THEN c ELSE insert(c, to, 0)
        new_balance == checked_add(c1[to], amount)
    IN  IF new_balance = None
        THEN [res |-> Err("AmountOverflow", 0), claims |-> c1]
        ELSE [res |-> Ok(0), claims |-> insert(c1, to, new_balance[1])]

claim_keeps_entry(b, l, c, time, caller, account, subaccount) ==
    \* mints the pending amount but leaves the claim entry in place
    LET amount == claim_amount(c, account)
    IN  IF account # AccountIdentifier_new(caller, unwrap_or(subaccount, DEFAULT_SUBACCOUNT))
        THEN [res |-> Err("ClaimNotAllowed", 0), balances |-> b, ledger |-> l,
              claims |-> c, amount |-> amount]
        ELSE
    LET id == mint(b, l, time, caller, Account_new(caller, subaccount), amount)
    IN  [res |-> id.res, balances |-> id.balances, ledger |-> id.ledger,
         claims |-> c, amount |-> amount]

(* claim after mint returned id: the entry is removed whatever id is *)
claim_minted(c, account, amount, id) ==
    [res |-> id.res, balances |-> id.balances, ledger |-> id.ledger,
     claims |-> remove(c, account), amount |-> amount]

claim(b, l, c, time, caller, account, subaccount) ==
    IF account # AccountIdentifier_new(caller, unwrap_or(subaccount, DEFAULT_SUBACCOUNT))
    THEN [res |-> Err("ClaimNotAllowed", 0), balances |-> b, ledger |-> l,
          claims |-> c, amount |-> claim_amount(c, account)]
    ELSE claim_minted(c, account, claim_amount(c, account),
            mint(b, l, time, caller, Account_new(caller, subaccount),
                 claim_amount(c, account)))

(* Batch transfer *)

BatchTransferArgs(receiver, amount) == [receiver |-> receiver, amount |-> amount]

RECURSIVE stage_receivers(_, _, _)
stage_receivers(updated, b, transfers) ==
    IF transfers = <<>> THEN updated
    ELSE stage_receivers(
            stage(updated, Head(transfers).receiver,
                  balance_of(b, Head(transfers).receiver)),
            b, Tail(transfers))

(* the loop over the legs: transfer_internal on the shared staged diff,    *)
(* whose commit merges the leg's diff into it                              *)
RECURSIVE batch_legs(_, _, _, _, _, _)
leg_done_unmerged(updated, from, transfers, fee, fee_to, auction_fee_ratio, r) ==
    \* goes on to the next leg without the leg's diff
    IF r.kind # "Ok" THEN r
    ELSE batch_legs(updated, from, Tail(transfers), fee, fee_to, auction_fee_ratio)

leg_done(updated, from, transfers, fee, fee_to, auction_fee_ratio, r) ==
    IF r.kind # "Ok" THEN r
    ELSE batch_legs(merge(updated, r.val), from, Tail(transfers),
                    fee, fee_to, auction_fee_ratio)

batch_legs(updated, from, transfers, fee, fee_to, auction_fee_ratio) ==
    IF transfers = <<>> THEN Ok(updated)
    ELSE leg_done(updated, from, transfers, fee, fee_to, auction_fee_ratio,
            transfer_staged(updated, from, Head(transfers).receiver,
                            Head(transfers).amount, fee, fee_to, auction_fee_ratio))

RECURSIVE commit_legs(_, _, _, _, _, _)
commit_legs(b, from, transfers, fee, fee_to, auction_fee_ratio) ==
    IF transfers = <<>> THEN [res |-> Ok(0), balances |-> b]
    ELSE LET t == transfer_internal(b, from, Head(transfers).receiver,
                                    Head(transfers).amount, fee, fee_to,
                                    auction_fee_ratio)
         IN  IF t.res.kind # "Ok" THEN t
             ELSE commit_legs(t.balances, from, Tail(transfers), fee, fee_to,
                              auction_fee_ratio)

batch_transfer_leg_by_leg(b, l, st, time, from, transfers) ==
    \* commits every leg to the store as it goes, without the shared diff
    LET r == commit_legs(b, from, transfers, st.fee, Account_new(st.fee_to, None),
                         st.fee_ratio)
    IN  IF r.res.kind # "Ok"
        THEN [res |-> r.res, balances |-> r.balances, ledger |-> l]
        ELSE [res |-> Ok([i \in 1..Len(transfers) |-> next_id(l) + i - 1]),
              balances |-> r.balances,
              ledger |-> ledger_batch_transfer(l, from, transfers, st.fee, time)]

batch_done_staged_balance(b, l, st, time, from, transfers, r) ==
    \* passes a leg's InsufficientFunds on as the leg reported it
    IF r.kind # "Ok"
    THEN [res |-> r, balances |-> b, ledger |-> l]
    ELSE [res |-> Ok([i \in 1..Len(transfers) |-> next_id(l) + i - 1]),
          balances |-> apply_change(b, r.val),
          ledger |-> ledger_batch_transfer(l, from, transfers, st.fee, time)]

(* batch_transfer after the loop returned r: the one commit and the        *)
(* records, or the error with the sender's stored balance                  *)
batch_done(b, l, st, time, from, transfers, r) ==
    IF r.kind = "InsufficientFunds"
    THEN [res |-> Err("InsufficientFunds", balance_of(b, from)),
          balances |-> b, ledger |-> l]
    ELSE IF r.kind # "Ok"
    THEN [res |-> r, balances |-> b, ledger |-> l]
    ELSE [res |-> Ok([i \in 1..Len(transfers) |-> next_id(l) + i - 1]),
          balances |-> apply_change(b, r.val),
          ledger |-> ledger_batch_transfer(l, from, transfers, st.fee, time)]

batch_transfer(b, l, st, time, from, transfers) ==
    batch_done(b, l, st, time, from, transfers,
        batch_legs(
            stage_receivers(
                stage(stage(stage(EmptyBalances,
                    from, balance_of(b, from)),
                    Account_new(st.fee_to, None),
                    balance_of(b, Account_new(st.fee_to, None))),
                    auction_account, balance_of(b, auction_account)),
                b, transfers),
            from, transfers, st.fee, Account_new(st.fee_to, None), st.fee_ratio))

----------------------------------------------------------------------------
(* The factory canister's message gate *)

(* FactoryState::controller() *)
controller == "alice"

(* the methods a message can name; inspect_message tells one from the rest *)
Methods == {"set_token_bytecode", "create_token", "get_token"}

Message(method, caller) == [method |-> method, caller |-> caller]

NoMessage == [method |-> "none", caller |-> "none", accepted |-> FALSE]

(* the factory as installed: no bytecode, nothing received *)
factory_init ==
    /\ token_wasm = None
    /\ inbox = <<>>
    /\ inspected = NoMessage

inspect_message_any_caller(wasm, method, caller) ==
    \* lets anyone call set_token_bytecode
    IF method = "set_token_bytecode" THEN TRUE
    ELSE wasm # None

(* inspect_message: TRUE is accept_message, FALSE is reject *)
inspect_message(wasm, method, caller) ==
    IF method = "set_token_bytecode" /\ controller = caller THEN TRUE
    ELSE wasm # None

----------------------------------------------------------------------------
(* State machine *)

Call(op, args, res) == [op |-> op, args |-> args, kind |-> res.kind, val |-> res.val]

Metadata(fee, fee_to, ratio) == [fee |-> fee, fee_to |-> fee_to, fee_ratio |-> ratio]

(* TokenCanister::init(metadata, amount) *)
init(metadata, amount) ==
    /\ now = TX_WINDOW + PERMITTED_DRIFT
    /\ balances = insert(EmptyBalances, Account_new(Owner, None), amount)
    /\ ledger = ledger_mint(<<>>, Account_new(Owner, None),
                            Account_new(Owner, None), amount, now)
    /\ claims = EmptyClaims
    /\ stats = metadata
    /\ result = Call("init", [amount |-> amount], Ok(0))
    /\ supply = amount
    /\ credited = [id \in {} |-> 0]
    /\ claimed = [id \in {} |-> 0]
    /\ accepted = {}
    /\ factory_init

(* Each operation is an action: the call made with the state as it is,    *)
(* and the step that leaves the state and the returned value r             *)

TransferReturns(from, args, r) ==
    /\ balances' = r.balances
    /\ ledger' = r.ledger
    /\ result' = Call("transfer", [from |-> from] @@ args, r.res)
    /\ accepted' = IF r.res.kind = "Ok" /\ args.created_at_time # None
                   THEN accepted \cup {[from |-> from, index |-> r.res.val] @@ args}
                   ELSE accepted
    /\ UNCHANGED <<claims, stats, now, supply, credited, claimed,
                 token_wasm, inbox, inspected>>

(* is20_transfer called by `caller` from its default subaccount *)
Transfer(caller, to, amount, fee, memo, created_at_time) ==
    TransferReturns(Account_new(caller, None),
        TransferArgs(None, to, amount, fee, memo, created_at_time),
        is20_transfer(balances, ledger, stats, now, Account_new(caller, None), to,
                      TransferArgs(None, to, amount, fee, memo, created_at_time)))

TransferIncludeFeeReturns(from, args, r) ==
    /\ balances' = r.balances
    /\ ledger' = r.ledger
    /\ result' = Call("transfer_include_fee", [from |-> from] @@ args, r.res)
    /\ UNCHANGED <<claims, stats, now, supply, credited, claimed, accepted,
                 token_wasm, inbox, inspected>>

TransferIncludeFee(caller, to, amount, fee, memo, created_at_time) ==
    TransferIncludeFeeReturns(Account_new(caller, None),
        TransferArgs(None, to, amount, fee, memo, created_at_time),
        transfer_include_fee(balances, ledger, stats, now, Account_new(caller, None), to,
                             TransferArgs(None, to, amount, fee, memo, created_at_time)))

BatchTransferReturns(from, transfers, r) ==
    /\ balances' = r.balances
    /\ ledger' = r.ledger
    /\ result' = Call("batch_transfer", [from |-> from, transfers |-> transfers], r.res)
    /\ UNCHANGED <<claims, stats, now, supply, credited, claimed, accepted,
                 token_wasm, inbox, inspected>>

BatchTransfer(caller, transfers) ==
    BatchTransferReturns(Account_new(caller, None), transfers,
        batch_transfer(balances, ledger, stats, now, Account_new(caller, None),
                       transfers))

MintReturns(to, amount, r) ==
    /\ balances' = r.balances
    /\ ledger' = r.ledger
    /\ result' = Call("mint", [to |-> to, amount |-> amount], r.res)
    /\ supply' = IF r.res.kind = "Ok" THEN supply + amount ELSE supply
    /\ UNCHANGED <<claims, stats, now, credited, claimed, accepted,
                 token_wasm, inbox, inspected>>

(* mint_as_owner *)
Mint(to, amount) ==
    MintReturns(to, amount, mint(balances, ledger, now, Owner, to, amount))

BurnReturns(from, amount, r) ==
    /\ balances' = r.balances
    /\ ledger' = r.ledger
    /\ result' = Call("burn", [from |-> from, amount |-> amount], r.res)
    /\ supply' = IF r.res.kind = "Ok" THEN supply - amount ELSE supply
    /\ UNCHANGED <<claims, stats, now, credited, claimed, accepted,
                 token_wasm, inbox, inspected>>

(* burn_own_tokens *)
Burn(caller, amount) ==
    BurnReturns(Account_new(caller, None), amount,
        burn(balances, ledger, now, caller, Account_new(caller, None), amount))

(* burn_as_owner: the owner burns from any account *)
BurnAsOwner(from, amount) ==
    BurnReturns(from, amount, burn(balances, ledger, now, Owner, from, amount))

MintToAccountIdReturns(to, amount, r) ==
    /\ claims' = r.claims
    /\ result' = Call("mint_to_accountid", [to |-> to, amount |-> amount], r.res)
    /\ credited' = IF r.res.kind = "Ok"
                   THEN insert(credited, to, claim_amount(credited, to) + amount)
                   ELSE credited
    /\ UNCHANGED <<balances, ledger, stats, now, supply, claimed, accepted,
                 token_wasm, inbox, inspected>>

MintToAccountId(to, amount) ==
    /\ claim_amount(credited, to) + amount <= MaxCredit
    /\ MintToAccountIdReturns(to, amount, mint_to_accountid(claims, to, amount))

ClaimReturns(caller, account, subaccount, r) ==
    /\ balances' = r.balances
    /\ ledger' = r.ledger
    /\ claims' = r.claims
    /\ result' = Call("claim", [caller |-> caller, account |-> account,
                                subaccount |-> subaccount], r.res)
    /\ supply' = IF r.res.kind = "Ok" THEN supply + r.amount ELSE supply
    /\ claimed' = IF r.res.kind = "Ok"
                  THEN insert(claimed, account, claim_amount(claimed, account) + r.amount)
                  ELSE claimed
    /\ UNCHANGED <<stats, now, credited, accepted,
                 token_wasm, inbox, inspected>>

Claim(caller, account, subaccount) ==
    ClaimReturns(caller, account, subaccount,
        claim(balances, ledger, claims, now, caller, account, subaccount))

(* the clock of ic::time() advances between calls *)
Tick ==
    /\ now < MaxTime
    /\ now' = now + 1
    /\ UNCHANGED <<balances, ledger, claims, stats, result, supply, credited, claimed, accepted,
                 token_wasm, inbox, inspected>>

(* the token's operations leave the factory as it is, and the factory's   *)
(* messages the token                                                      *)
token == <<balances, ledger, claims, stats, now, result, supply, credited, claimed,
           accepted>>

(* an ingress message reaches the factory: inspect_message decides, and an *)
(* accepted message waits to be executed                                   *)
InspectMessage(method, caller) ==
    /\ inspected' = [accepted |-> inspect_message(token_wasm, method, caller)]
                        @@ Message(method, caller)
    /\ inbox' = IF inspect_message(token_wasm, method, caller)
                THEN Append(inbox, Message(method, caller))
                ELSE inbox
    /\ Len(inbox') <= MaxInbox
    /\ UNCHANGED <<token_wasm, token>>

(* an accepted set_token_bytecode is executed and stores the bytecode *)
SetTokenBytecode ==
    /\ inbox # <<>>
    /\ Head(inbox).method = "set_token_bytecode"
    /\ token_wasm' = Some("wasm")
    /\ inbox' = Tail(inbox)
    /\ UNCHANGED <<inspected, token>>

(* an accepted message is executed without touching the bytecode: another  *)
(* method, or a set_token_bytecode the method itself refuses               *)
ExecuteOther ==
    /\ inbox # <<>>
    /\ inbox' = Tail(inbox)
    /\ UNCHANGED <<token_wasm, inspected, token>>

----------------------------------------------------------------------------
(* Inputs *)

alice == Account_new("alice", None)
bob == Account_new("bob", None)
Receivers == {alice, bob, auction_account}
SubaccountOpts == {None, Some(1)}
LegacyIds == {AccountIdentifier_new("alice", DEFAULT_SUBACCOUNT),
              AccountIdentifier_new("bob", 1)}

(* the model stops a call that would grow the ledger past its bound *)
InBound == Len(ledger') <= MaxLedger

(* Spec: every operation, on a sample of arguments *)

Init ==
    \/ init(Metadata(1, "bob", <<1, 2>>), MaxTokens)
    \/ init(Metadata(0, "alice", <<0, 1>>), MaxTokens)

Next ==
    \/ \E caller \in Principals, to \in Receivers :
          Transfer(caller, to, 1, None, None, None) /\ InBound
    \/ TransferIncludeFee("alice", bob, MaxTokens, None, None, None) /\ InBound
    \/ \E transfers \in {<<BatchTransferArgs(alice, 0), BatchTransferArgs(bob, 1)>>,
                         <<BatchTransferArgs(bob, 1), BatchTransferArgs(bob, MaxTokens)>>} :
          BatchTransfer("alice", transfers) /\ InBound
    \/ \E amount \in {0, MaxTokens} : Mint(bob, amount) /\ InBound
    \/ \E amount \in {1, MaxTokens} : Burn("alice", amount) /\ InBound
    \/ MintToAccountId(AccountIdentifier_new("alice", DEFAULT_SUBACCOUNT), 1)
    \/ \E caller \in Principals :
          Claim(caller, AccountIdentifier_new("alice", DEFAULT_SUBACCOUNT), None) /\ InBound

Spec == Init /\ [][Next]_vars

(* SpecTransfer: transfer and transfer_include_fee over every aliasing of *)
(* sender, recipient, fee recipient and auction escrow, with and without   *)
(* created_at_time                                                         *)

InitTransfer ==
    \/ init(Metadata(2, "bob", <<1, 2>>), MaxTokens)
    \/ init(Metadata(1, "alice", <<0, 1>>), MaxTokens)
    \/ init(Metadata(0, "bob", <<1, 1>>), MaxTokens)

NextTransfer ==
    \/ \E caller \in Principals, to \in Receivers, amount \in {0, 1} :
          Transfer(caller, to, amount, None, None, None) /\ InBound
    \/ \E fee \in {None, Some(1)} :
          Transfer("alice", bob, MaxTokens, fee, None, None) /\ InBound
    \/ \E created_at_time \in {0, TX_WINDOW + PERMITTED_DRIFT,
                               TX_WINDOW + 2 * PERMITTED_DRIFT + 1} :
          Transfer("alice", bob, 0, Some(1), None, Some(created_at_time)) /\ InBound
    \/ \E caller \in Principals, amount \in {1, MaxTokens} :
          TransferIncludeFee(caller, bob, amount, None, None, None) /\ InBound
    \/ Mint(bob, MaxTokens) /\ InBound

SpecTransfer == InitTransfer /\ [][NextTransfer]_vars

(* SpecBatch: batch_transfer over batches of up to MaxBatch legs whose     *)
(* receivers repeat and alias the sender and the fee destinations          *)

Legs == {BatchTransferArgs(bob, 1), BatchTransferArgs(alice, 0),
         BatchTransferArgs(auction_account, 1)}

Batches ==
    {[i \in 1..n |-> IF i < n THEN l ELSE m] : n \in 0..MaxBatch, l \in Legs, m \in Legs}

InitBatch ==
    \/ init(Metadata(1, "bob", <<1, 2>>), MaxTokens)
    \/ init(Metadata(0, "alice", <<0, 1>>), MaxTokens)

NextBatch ==
    \/ \E caller \in Principals, transfers \in Batches :
          BatchTransfer(caller, transfers) /\ InBound
    \/ Mint(bob, MaxTokens) /\ InBound

SpecBatch == InitBatch /\ [][NextBatch]_vars

(* SpecClaims: mint_to_accountid and claim, with matching and mismatching *)
(* callers and subaccounts                                                 *)

InitClaims ==
    \/ init(Metadata(0, "alice", <<0, 1>>), MaxTokens)
    \/ init(Metadata(0, "alice", <<0, 1>>), 1)

NextClaims ==
    \/ \E to \in LegacyIds, amount \in 0..MaxCredit : MintToAccountId(to, amount)
    \/ \E caller \in Principals, account \in LegacyIds, subaccount \in SubaccountOpts :
          Claim(caller, account, subaccount) /\ InBound
    \/ Mint(Account_new("bob", Some(1)), MaxTokens) /\ InBound
    \/ Burn("alice", 1) /\ InBound

SpecClaims == InitClaims /\ [][NextClaims]_vars

(* SpecDedup: transfers that supply created_at_time anywhere around the   *)
(* accepted window, resubmitted as the clock advances, with a mint and a   *)
(* burn in between                                                         *)

InitDedup == init(Metadata(0, "alice", <<0, 1>>), MaxTokens)

NextDedup ==
    \/ \E amount \in {1}, memo \in {None, Some(1)}, created_at_time \in 0..(MaxTime + 2) :
          /\ Transfer("alice", bob, amount, None, memo, Some(created_at_time))
          /\ Len(ledger') <= MaxLedger + 1
    \/ Mint(bob, 1) /\ InBound
    \/ Burn("alice", 1) /\ InBound
    \/ Tick

SpecDedup == InitDedup /\ [][NextDedup]_vars

(* SpecMintBurn: mints and burns of every amount, for accounts with and    *)
(* without an entry                                                        *)

InitMintBurn ==
    \/ init(Metadata(0, "alice", <<0, 1>>), MaxTokens)
    \/ init(Metadata(0, "alice", <<0, 1>>), 1)

NextMintBurn ==
    \/ \E to \in {alice, bob}, amount \in Tokens : Mint(to, amount) /\ InBound
    \/ \E caller \in Principals, amount \in Tokens : Burn(caller, amount) /\ InBound
    \/ \E amount \in {0, 1} : BurnAsOwner(bob, amount) /\ InBound

SpecMintBurn == InitMintBurn /\ [][NextMintBurn]_vars

(* SpecWindow: transfers with created_at_time on, just inside and just    *)
(* outside the accepted window, and transfers without it, as the clock    *)
(* advances; some of them also carry a wrong fee or exceed the balance    *)

(* created_at_time relative to the current time: one tick outside and     *)
(* exactly on each edge of the window                                      *)
WindowEdges == {0 - (TX_WINDOW + 1), 0 - TX_WINDOW, PERMITTED_DRIFT, PERMITTED_DRIFT + 1}

InitWindow == init(Metadata(1, "bob", <<1, 2>>), MaxTokens)

NextWindow ==
    \/ \E d \in WindowEdges, fee \in {None, Some(0)} :
          Transfer("alice", bob, 0, fee, None, Some(now + d)) /\ InBound
    \/ \E d \in WindowEdges :
          Transfer("alice", bob, MaxTokens, None, None, Some(now + d)) /\ InBound
    \/ \E amount \in {0, 1} :
          Transfer("alice", bob, amount, None, None, None) /\ InBound
    \/ Tick

SpecWindow == InitWindow /\ [][NextWindow]_vars

(* SpecFee: transfers and batches under every fee and every split ratio   *)
(* up to the bound, with either principal as fee recipient                 *)

FeeRatios == {r \in (0..MaxTokens) \X (1..MaxTokens) : r[1] <= r[2]}

InitFee ==
    \E fee \in Tokens, fee_to \in Principals, ratio \in FeeRatios :
        init(Metadata(fee, fee_to, ratio), MaxTokens)

NextFee ==
    \/ \E to \in {bob, auction_account}, amount \in {0, 1} :
          Transfer("alice", to, amount, None, None, None) /\ InBound
    \/ \E transfers \in {<<BatchTransferArgs(bob, 0), BatchTransferArgs(bob, 0)>>,
                         <<BatchTransferArgs(bob, 1), BatchTransferArgs(auction_account, 0)>>} :
          BatchTransfer("alice", transfers) /\ InBound

SpecFee == InitFee /\ [][NextFee]_vars

(* SpecOrder: transfers that fail for more than one reason at once: out   *)
(* of the window or repeating a record, with a wrong fee, beyond the       *)
(* sender's balance, into a full recipient                                 *)

InitOrder == init(Metadata(1, "bob", <<1, 2>>), MaxTokens)

NextOrder ==
    \/ \E to \in {alice, bob}, amount \in {0, MaxTokens}, fee \in {None, Some(0)},
          d \in {0 - (TX_WINDOW + 1), 0, PERMITTED_DRIFT + 1} :
          Transfer("alice", to, amount, fee, None, Some(now + d)) /\ InBound
    \/ \E fee \in {None, Some(0)} :
          Transfer("bob", alice, 1, fee, None, None) /\ InBound
    \/ Mint(bob, MaxTokens) /\ InBound
    \/ Tick

SpecOrder == InitOrder /\ [][NextOrder]_vars

(* SpecFunds: transfers of every amount, to oneself and to the other      *)
(* principal, from full, partly spent and empty accounts                   *)

InitFunds == init(Metadata(1, "bob", <<1, 2>>), MaxTokens)

NextFunds ==
    \E caller \in Principals, to \in {alice, bob}, amount \in Tokens :
        Transfer(caller, to, amount, None, None, None) /\ InBound

SpecFunds == InitFunds /\ [][NextFunds]_vars

(* SpecFactory: messages of every method from every principal reach the   *)
(* factory before and after its bytecode is set                            *)

InitFactory == init(Metadata(0, "alice", <<0, 1>>), MaxTokens)

NextFactory ==
    \/ \E method \in Methods, caller \in Principals : InspectMessage(method, caller)
    \/ SetTokenBytecode
    \/ ExecuteOther

SpecFactory == InitFactory /\ [][NextFactory]_vars

----------------------------------------------------------------------------
(* C1: in every reachable state the sum of all stored balances equals the  *)
(* total minted (initial supply, mints, claims) minus the total burned.    *)
C1_Conservation == SumBalances(balances) = supply

(* a claim has minted and a burn has destroyed tokens *)
C1_Witness ==
    /\ result.op = "claim" /\ result.kind = "Ok"
    /\ \E id \in DOMAIN claimed : claimed[id] > 0
    /\ \E i \in 1..Len(ledger) : ledger[i].operation = "Burn" /\ ledger[i].amount > 0

(* C5: the Balances Store holds no entry whose value is zero, and no       *)
(* negative balance.                                                       *)
C5_NoZeroEntry == \A a \in DOMAIN balances : balances[a] > 0

----------------------------------------------------------------------------
(* Net change of each account in a transfer of `amount` with fee `fee`:    *)
(* the sum of the roles the account plays                                  *)
RoleDelta(a, from, to, debit, credit, st) ==
    LET fees == get_value(st.fee_ratio, st.fee)
    IN  (IF a = from THEN 0 - debit ELSE 0)
      + (IF a = to THEN credit ELSE 0)
      + (IF a = Account_new(st.fee_to, None) THEN fees[1] ELSE 0)
      + (IF a = auction_account THEN fees[2] ELSE 0)

Touched(from, to, st) ==
    DOMAIN balances \cup DOMAIN balances'
        \cup {from, to, Account_new(st.fee_to, None), auction_account}

StateUnchanged == balances' = balances /\ ledger' = ledger /\ claims' = claims

(* C3: a transfer or transfer_include_fee call that returns an error       *)
(* leaves the Balances Store, the Ledger and the Claims map as they were.  *)
C3_ErrorLeavesState ==
    [][(result'.op \in {"transfer", "transfer_include_fee"} /\ result'.kind # "Ok")
          => StateUnchanged]_vars

(* a transfer fails on the recipient's credit, after the sender's debit    *)
(* was staged                                                              *)
C3_Witness ==
    /\ result.op = "transfer" /\ result.kind = "AmountOverflow"
    /\ balance_of(balances, result.args.from) >= result.args.amount + stats.fee

(* C6: a successful transfer changes every account by the sum of the roles *)
(* it plays: -(amount + fee) as sender, +amount as recipient, +owner_fee   *)
(* as fee recipient, +auction_fee as auction escrow; other accounts keep   *)
(* their balance.                                                          *)
C6_TransferDeltas ==
    [][(result'.op = "transfer" /\ result'.kind = "Ok") =>
          \A a \in Touched(result'.args.from, result'.args.to, stats) :
              balance_of(balances', a) = balance_of(balances, a)
                  + RoleDelta(a, result'.args.from, result'.args.to,
                              result'.args.amount + stats.fee,
                              result'.args.amount, stats)]_vars

(* the recipient is the fee recipient and the sender is left with nothing  *)
C6_Witness ==
    /\ result.op = "transfer" /\ result.kind = "Ok"
    /\ result.args.to = Account_new(stats.fee_to, None)
    /\ result.args.from # result.args.to
    /\ stats.fee > 0
    /\ balance_of(balances, result.args.from) = 0

C4_BatchAtomic ==
    [][(result'.op = "batch_transfer" /\ result'.kind # "Ok") => StateUnchanged]_vars

(* a two-leg batch has failed at its second leg: its first leg alone       *)
(* succeeds from the same state                                            *)
C4_Witness ==
    /\ result.op = "batch_transfer"
    /\ result.kind \in {"InsufficientFunds", "AmountOverflow"}
    /\ Len(result.args.transfers) = 2
    /\ result.args.transfers[1].amount > 0
    /\ batch_transfer(balances, ledger, stats, now, result.args.from,
                      <<result.args.transfers[1]>>).res.kind = "Ok"

(* C7: a claim on a legacy id whose entry an earlier claim has removed     *)
(* returns an error, mints nothing and appends no record; and the total    *)
(* minted through claim for a legacy id never exceeds the total credited   *)
(* to it by mint_to_accountid.                                             *)
C7_ClaimOnce ==
    /\ [][(/\ result'.op = "claim"
           /\ claim_amount(claimed, result'.args.account) > 0
           /\ result'.args.account \notin DOMAIN claims)
             => (/\ result'.kind # "Ok"
                 /\ balances' = balances
                 /\ ledger' = ledger)]_vars
    /\ [](\A id \in DOMAIN claimed : claimed[id] <= claim_amount(credited, id))

(* C8: a claim that returns an error, ClaimNotAllowed or AmountOverflow,   *)
(* leaves the claim entry, all balances and the ledger unchanged.          *)
C8_ClaimErrorLeavesState ==
    [][(result'.op = "claim" /\ result'.kind # "Ok") => StateUnchanged]_vars

(* C9: a successful claim credits the caller's account with exactly the    *)
(* pending amount, changes no other balance, appends one Mint record of    *)
(* that amount whose index it returns, and removes the claim entry.        *)
C9_ClaimMints ==
    [][(result'.op = "claim" /\ result'.kind = "Ok") =>
          LET account == result'.args.account
              to == Account_new(result'.args.caller, result'.args.subaccount)
              pending == claim_amount(claims, account)
          IN  /\ account = AccountIdentifier_new(result'.args.caller,
                               unwrap_or(result'.args.subaccount, DEFAULT_SUBACCOUNT))
              /\ \A a \in DOMAIN balances \cup DOMAIN balances' \cup {to} :
                    balance_of(balances', a) =
                        balance_of(balances, a) + (IF a = to THEN pending ELSE 0)
              /\ Len(ledger') = Len(ledger) + 1
              /\ SubSeq(ledger', 1, Len(ledger)) = ledger
              /\ ledger'[Len(ledger')].operation = "Mint"
              /\ ledger'[Len(ledger')].to = to
              /\ ledger'[Len(ledger')].amount = pending
              /\ ledger'[Len(ledger')].index = result'.val
              /\ result'.val = Len(ledger)
              /\ account \notin DOMAIN claims'
              /\ \A id \in DOMAIN claims \ {account} :
                    id \in DOMAIN claims' /\ claims'[id] = claims[id]]_vars

(* a claim of a nonzero pending amount has succeeded *)
C9_Witness ==
    /\ result.op = "claim" /\ result.kind = "Ok"
    /\ ledger[Len(ledger)].operation = "Mint"
    /\ ledger[Len(ledger)].amount > 0
    /\ ledger[Len(ledger)].index = result.val
    /\ result.args.account \notin DOMAIN claims

(* C2: once a transfer that supplied created_at_time was accepted with     *)
(* index i, a later submission with the same from, to, amount, memo, fee   *)
(* and created_at_time, made while created_at_time is within TX_WINDOW of  *)
(* the current time, is rejected with Duplicate{duplicate_of: i} and       *)
(* changes no balance (steps of the clock alone are not submissions).      *)
C2_DedupIdempotent ==
    [][(/\ now' = now
        /\ result'.op = "transfer"
        /\ result'.args.created_at_time # None
        /\ now - result'.args.created_at_time[1] <= TX_WINDOW
        /\ \E t \in accepted : [t EXCEPT !.index = 0] = [index |-> 0] @@ result'.args)
          => (/\ result'.kind = "Duplicate"
              /\ \E t \in accepted :
                    /\ [t EXCEPT !.index = 0] = [index |-> 0] @@ result'.args
                    /\ result'.val = t.index
              /\ balances' = balances)]_vars

----------------------------------------------------------------------------
(* Net change of each account over the legs of a batch: the sum, leg by    *)
(* leg, of the roles it plays in a transfer of the leg's amount            *)
RECURSIVE LegsDelta(_, _, _, _)
LegsDelta(a, from, transfers, st) ==
    IF transfers = <<>> THEN 0
    ELSE RoleDelta(a, from, Head(transfers).receiver,
                   Head(transfers).amount + st.fee, Head(transfers).amount, st)
         + LegsDelta(a, from, Tail(transfers), st)

BatchTouched(from, transfers, st) ==
    DOMAIN balances \cup DOMAIN balances'
        \cup {from, Account_new(st.fee_to, None), auction_account}
        \cup {transfers[i].receiver : i \in 1..Len(transfers)}

(* C11: batch_transfer succeeds exactly when its legs, run in order as     *)
(* single transfers from the balances before the call, all succeed; the    *)
(* balances it leaves are then the ones those transfers leave, every       *)
(* account changed by the sum over the legs of the roles it plays.         *)
C11_BatchAsSequence ==
    [][result'.op = "batch_transfer" =>
          LET from == result'.args.from
              transfers == result'.args.transfers
              seq == commit_legs(balances, from, transfers, stats.fee,
                                 Account_new(stats.fee_to, None), stats.fee_ratio)
          IN  /\ (result'.kind = "Ok") <=> (seq.res.kind = "Ok")
              /\ result'.kind = "Ok" =>
                    \A a \in BatchTouched(from, transfers, stats) :
                        /\ balance_of(balances', a) = balance_of(seq.balances, a)
                        /\ balance_of(balances', a) = balance_of(balances, a)
                              + LegsDelta(a, from, transfers, stats)]_vars

(* a two-leg batch with a fee in force has succeeded, its first receiver   *)
(* being the fee recipient                                                 *)
C11_Witness ==
    /\ result.op = "batch_transfer" /\ result.kind = "Ok"
    /\ Len(result.args.transfers) = 2
    /\ stats.fee > 0
    /\ result.args.transfers[1].receiver = Account_new(stats.fee_to, None)
    /\ result.args.transfers[1].amount > 0

(* C12: a batch_transfer that fails with InsufficientFunds reports the     *)
(* sender's stored balance from before the call, at whichever leg it       *)
(* failed.                                                                 *)
C12_BatchReportsStoredBalance ==
    [][(result'.op = "batch_transfer" /\ result'.kind = "InsufficientFunds")
          => result'.val = balance_of(balances, result'.args.from)]_vars

(* a batch has failed with InsufficientFunds at its second leg, after its  *)
(* first leg lowered the sender's staged balance                           *)
C12_Witness ==
    /\ result.op = "batch_transfer" /\ result.kind = "InsufficientFunds"
    /\ Len(result.args.transfers) = 2
    /\ result.args.transfers[1].receiver # result.args.from
    /\ result.args.transfers[1].amount + stats.fee > 0
    /\ result.args.transfers[1].amount + stats.fee
          <= balance_of(balances, result.args.from)
    /\ result.val = balance_of(balances, result.args.from)

----------------------------------------------------------------------------
OthersUnchanged(account) ==
    \A a \in (DOMAIN balances \cup DOMAIN balances') \ {account} :
        balance_of(balances', a) = balance_of(balances, a)

(* C13: burn of `amount` from an account holding b fails with              *)
(* InsufficientFunds{balance: b}, balances and ledger unchanged, exactly   *)
(* when amount > b; otherwise it succeeds, the account holds b - amount    *)
(* and has no entry when that is zero.                                     *)
C13_Burn ==
    [][result'.op = "burn" =>
          LET from == result'.args.from
              amount == result'.args.amount
              b == balance_of(balances, from)
          IN  IF amount > b
              THEN /\ result'.kind = "InsufficientFunds" /\ result'.val = b
                   /\ balances' = balances /\ ledger' = ledger
              ELSE /\ result'.kind = "Ok"
                   /\ balance_of(balances', from) = b - amount
                   /\ (b - amount = 0 => from \notin DOMAIN balances')
                   /\ OthersUnchanged(from)]_vars

(* a burn of more than a positive balance has been refused *)
C13_Witness ==
    /\ result.op = "burn" /\ result.kind = "InsufficientFunds"
    /\ result.val > 0 /\ result.args.amount > result.val
    /\ balance_of(balances, result.args.from) = result.val

(* C14: a burn of zero succeeds whatever the account holds, changes no     *)
(* balance, appends one Burn record of amount zero and returns its index.  *)
C14_BurnZero ==
    [][(result'.op = "burn" /\ result'.args.amount = 0) =>
          /\ result'.kind = "Ok"
          /\ \A a \in DOMAIN balances \cup DOMAIN balances' \cup {result'.args.from} :
                balance_of(balances', a) = balance_of(balances, a)
          /\ Len(ledger') = Len(ledger) + 1
          /\ SubSeq(ledger', 1, Len(ledger)) = ledger
          /\ ledger'[Len(ledger')].operation = "Burn"
          /\ ledger'[Len(ledger')].amount = 0
          /\ ledger'[Len(ledger')].from = result'.args.from
          /\ ledger'[Len(ledger')].index = result'.val]_vars

(* a burn of zero from an account without an entry has succeeded *)
C14_Witness ==
    /\ result.op = "burn" /\ result.kind = "Ok" /\ result.args.amount = 0
    /\ result.args.from \notin DOMAIN balances
    /\ ledger[Len(ledger)].operation = "Burn"

(* C15: mint fails with AmountOverflow, store (keys included) and ledger   *)
(* unchanged, when the balance plus the amount exceeds the largest amount; *)
(* otherwise it adds the amount to that balance alone, appends one Mint    *)
(* record and returns its index.                                           *)
C15_Mint ==
    [][result'.op = "mint" =>
          LET to == result'.args.to
              amount == result'.args.amount
          IN  IF balance_of(balances, to) + amount > MaxTokens
              THEN /\ result'.kind = "AmountOverflow"
                   /\ balances' = balances /\ ledger' = ledger
              ELSE /\ result'.kind = "Ok"
                   /\ balance_of(balances', to) = balance_of(balances, to) + amount
                   /\ OthersUnchanged(to)
                   /\ Len(ledger') = Len(ledger) + 1
                   /\ SubSeq(ledger', 1, Len(ledger)) = ledger
                   /\ ledger'[Len(ledger')].operation = "Mint"
                   /\ ledger'[Len(ledger')].amount = amount
                   /\ ledger'[Len(ledger')].to = to
                   /\ ledger'[Len(ledger')].index = result'.val]_vars

(* a mint that would pass the largest amount has been refused *)
C15_Witness ==
    /\ result.op = "mint" /\ result.kind = "AmountOverflow"
    /\ balance_of(balances, result.args.to) + result.args.amount > MaxTokens
    /\ result.args.amount <= MaxTokens

(* the operations whose success appends one record *)
SingleRecordOps == {"transfer", "transfer_include_fee", "mint", "burn", "claim"}

(* the record of every position carries that position as its index *)
Gapless(l) == \A k \in 1..Len(l) : l[k].index = k - 1

(* C16: ledger indices are gapless, the record at position k having index  *)
(* k; a successful transfer, mint, burn or claim appends exactly one       *)
(* record and returns its index, the ledger length before the call; a      *)
(* successful batch of n legs appends n records and returns their n        *)
(* consecutive indices in leg order; a failing operation appends nothing.  *)
C16_GaplessIndices ==
    [][/\ Gapless(ledger) /\ Gapless(ledger')
       /\ SubSeq(ledger', 1, Len(ledger)) = ledger
       /\ (result'.kind = "Ok" /\ result'.op \in SingleRecordOps) =>
             /\ Len(ledger') = Len(ledger) + 1
             /\ result'.val = Len(ledger)
             /\ ledger'[Len(ledger')].index = result'.val
       /\ (result'.kind = "Ok" /\ result'.op = "batch_transfer") =>
             LET transfers == result'.args.transfers
             IN  /\ Len(ledger') = Len(ledger) + Len(transfers)
                 /\ Len(result'.val) = Len(transfers)
                 /\ \A i \in 1..Len(transfers) :
                       /\ result'.val[i] = Len(ledger) + i - 1
                       /\ ledger'[Len(ledger) + i].index = result'.val[i]
                       /\ ledger'[Len(ledger) + i].to = transfers[i].receiver
                       /\ ledger'[Len(ledger) + i].amount = transfers[i].amount
       /\ result'.kind # "Ok" => ledger' = ledger]_vars

(* a batch of two legs has returned the indices of its two records *)
C16_Witness ==
    /\ result.op = "batch_transfer" /\ result.kind = "Ok"
    /\ Len(result.args.transfers) = 2
    /\ result.val = <<Len(ledger) - 2, Len(ledger) - 1>>
    /\ ledger[Len(ledger)].index = Len(ledger) - 1

(* C17: the ledger is append-only: across every step each record already  *)
(* in the ledger keeps its position and all of its fields and none is      *)
(* removed; every record has status Succeeded.                             *)
C17_AppendOnly ==
    [][/\ Len(ledger') >= Len(ledger)
       /\ \A k \in 1..Len(ledger) : ledger'[k] = ledger[k]
       /\ \A k \in 1..Len(ledger') : ledger'[k].status = "Succeeded"
       /\ \A k \in 1..Len(ledger) : ledger[k].status = "Succeeded"]_vars

(* the records of a mint, a transfer and a burn stand in the order they    *)
(* were appended                                                           *)
C17_Witness ==
    /\ Len(ledger) = 3
    /\ ledger[1].operation = "Mint"
    /\ ledger[2].operation = "Transfer"
    /\ ledger[3].operation = "Burn"
    /\ result.op = "burn" /\ result.kind = "Ok"

(* C18: a transfer that supplies created_at_time is rejected with         *)
(* TooOld{TX_WINDOW} exactly when now - created_at_time > TX_WINDOW and    *)
(* with CreatedInFuture{now} exactly when created_at_time - now >          *)
(* PERMITTED_DRIFT, whatever the ledger holds; a created_at_time exactly   *)
(* TX_WINDOW old or exactly PERMITTED_DRIFT ahead gets neither.            *)
C18_TimestampWindow ==
    [][(/\ result'.op = "transfer"
        /\ now' = now
        /\ result'.args.created_at_time # None) =>
          LET created_at_time == result'.args.created_at_time[1]
          IN  /\ (result'.kind = "TooOld") <=> (now - created_at_time > TX_WINDOW)
              /\ result'.kind = "TooOld" => result'.val = TX_WINDOW
              /\ (result'.kind = "CreatedInFuture")
                    <=> (created_at_time - now > PERMITTED_DRIFT)
              /\ result'.kind = "CreatedInFuture" => result'.val = now
              /\ (result'.kind \in {"TooOld", "CreatedInFuture"}) =>
                    /\ balances' = balances /\ ledger' = ledger]_vars

(* before the clock has moved, a transfer created one tick outside the     *)
(* window has been refused as too old                                      *)
C18_Witness ==
    /\ now = TX_WINDOW + PERMITTED_DRIFT
    /\ result.op = "transfer" /\ result.kind = "TooOld"
    /\ result.args.created_at_time = Some(now - TX_WINDOW - 1)

(* C19: a transfer that omits created_at_time is never rejected as         *)
(* TooOld, CreatedInFuture or Duplicate: it succeeds or fails as the       *)
(* balances alone decide, whatever the ledger holds, and when it succeeds  *)
(* it applies its balance change and appends its own record, whose         *)
(* timestamp is the current time.                                          *)
C19_NoCreatedAtTime ==
    [][(/\ result'.op = "transfer"
        /\ now' = now
        /\ result'.args.created_at_time = None
        /\ result'.args.fee = None) =>
          LET from == result'.args.from
              to == result'.args.to
              amount == result'.args.amount
          IN  /\ result'.kind \notin {"TooOld", "CreatedInFuture", "Duplicate"}
              /\ (result'.kind = "Ok") <=> (balance_of(balances, from) >= amount + stats.fee)
              /\ result'.kind = "Ok" =>
                    /\ \A a \in Touched(from, to, stats) :
                          balance_of(balances', a) = balance_of(balances, a)
                              + RoleDelta(a, from, to, amount + stats.fee, amount, stats)
                    /\ Len(ledger') = Len(ledger) + 1
                    /\ SubSeq(ledger', 1, Len(ledger)) = ledger
                    /\ ledger'[Len(ledger')].operation = "Transfer"
                    /\ ledger'[Len(ledger')].from = from
                    /\ ledger'[Len(ledger')].to = to
                    /\ ledger'[Len(ledger')].amount = amount
                    /\ ledger'[Len(ledger')].timestamp = now]_vars

(* two identical submissions without created_at_time, made at the same     *)
(* time, have both executed: their records differ in the index alone       *)
C19_Witness ==
    /\ result.op = "transfer" /\ result.kind = "Ok"
    /\ result.args.created_at_time = None
    /\ accepted = {}
    /\ Len(ledger) = 3
    /\ ledger[2].operation = "Transfer"
    /\ ledger[3] = [ledger[2] EXCEPT !.index = 2]
    /\ balance_of(balances, result.args.from)
          = MaxTokens - 2 * (result.args.amount + stats.fee)

(* the legs of the call a result reports: a transfer is one leg *)
CallLegs(r) ==
    IF r.op = "batch_transfer" THEN r.args.transfers
    ELSE <<BatchTransferArgs(r.args.to, r.args.amount)>>

(* what the legs take from and give to account a, fee shares left out:    *)
(* -(amount + fee) per leg as sender, +amount per leg it receives          *)
RECURSIVE PrincipalDelta(_, _, _, _)
PrincipalDelta(a, from, transfers, fee) ==
    IF transfers = <<>> THEN 0
    ELSE (IF a = from THEN 0 - (Head(transfers).amount + fee) ELSE 0)
       + (IF a = Head(transfers).receiver THEN Head(transfers).amount ELSE 0)
       + PrincipalDelta(a, from, Tail(transfers), fee)

(* what account a gained over the step beyond that: its share of the fees *)
FeeGain(a, from, transfers, fee) ==
    balance_of(balances', a) - balance_of(balances, a)
        - PrincipalDelta(a, from, transfers, fee)

(* C20: for every fee and every ratio the two parts of the split add up to *)
(* the fee, the auction share rounded down and the remainder going to the  *)
(* fee recipient; over a successful transfer or batch the fee recipient    *)
(* and the auction escrow together gain exactly the fee debited from the   *)
(* sender for each leg, and no other account gains any of it.              *)
C20_FeeSplitExact ==
    [][(result'.op \in {"transfer", "batch_transfer"} /\ result'.kind = "Ok") =>
          LET from == result'.args.from
              transfers == CallLegs(result')
              n == Len(CallLegs(result'))
              fee == stats.fee
              fee_to == Account_new(stats.fee_to, None)
              fees == get_value(stats.fee_ratio, stats.fee)
              auction_share == (stats.fee * stats.fee_ratio[1]) \div stats.fee_ratio[2]
          IN  /\ fees[1] \in Tokens /\ fees[2] \in Tokens
              /\ fees[1] + fees[2] = fee
              /\ fees[2] = auction_share
              /\ FeeGain(auction_account, from, transfers, fee) = n * auction_share
              /\ FeeGain(fee_to, from, transfers, fee) = n * (fee - auction_share)
              /\ FeeGain(fee_to, from, transfers, fee)
                    + FeeGain(auction_account, from, transfers, fee) = n * fee
              /\ \A a \in BatchTouched(from, transfers, stats) \ {fee_to, auction_account} :
                    FeeGain(a, from, transfers, fee) = 0]_vars

(* a transfer has paid a fee that the ratio does not divide evenly *)
C20_Witness ==
    /\ result.op = "transfer" /\ result.kind = "Ok"
    /\ (stats.fee * stats.fee_ratio[1]) % stats.fee_ratio[2] # 0
    /\ balance_of(balances, auction_account) > 0
    /\ balance_of(balances, Account_new(stats.fee_to, None)) > 0
    /\ result.args.from # Account_new(stats.fee_to, None)

Matches(l, time, args) ==
    {k \in 1..Len(l) :
        /\ time - l[k].timestamp <= TX_WINDOW
        /\ l[k].timestamp = args.created_at_time[1]
        /\ l[k].from = args.from
        /\ l[k].to = args.to
        /\ l[k].memo = args.memo
        /\ l[k].amount = args.amount
        /\ (args.fee = None \/ l[k].fee = args.fee[1])}

Newest(ks) == CHOOSE k \in ks : \A m \in ks : m <= k

Validation(l, time, r) ==
    validate_and_get_tx_ts(l, time, r.args.from.owner,
        TransferArgs(r.args.from_subaccount, r.args.to, r.args.amount, r.args.fee,
                     r.args.memo, r.args.created_at_time))

WrongFee(r, st) == r.args.fee # None /\ r.args.fee[1] # st.fee

(* C23: in a transfer the timestamp and duplicate validation comes first,  *)
(* then the expected-fee check, then the funds check, then the credit      *)
(* overflow checks: a failed validation is what the call reports, wrong    *)
(* fee or not; a wrong fee that passed validation gives                    *)
(* BadFee{configured fee}, sufficient balance or not; a balance below      *)
(* amount + fee gives InsufficientFunds, recipient full or not.            *)
C23_ErrorPrecedence ==
    [][(result'.op = "transfer" /\ now' = now) =>
          LET v == Validation(ledger, now, result')
              b == balance_of(balances, result'.args.from)
          IN  /\ v.kind # "Ok" => (result'.kind = v.kind /\ result'.val = v.val)
              /\ (v.kind = "Ok" /\ WrongFee(result', stats)) =>
                    (result'.kind = "BadFee" /\ result'.val = stats.fee)
              /\ result'.kind = "BadFee" => (v.kind = "Ok" /\ WrongFee(result', stats))
              /\ (v.kind = "Ok" /\ ~WrongFee(result', stats)
                     /\ b < result'.args.amount + stats.fee) =>
                    result'.kind = "InsufficientFunds"
              /\ result'.kind = "AmountOverflow" =>
                    (/\ v.kind = "Ok" /\ ~WrongFee(result', stats)
                     /\ b >= result'.args.amount + stats.fee)]_vars

(* a wrong fee has been reported for a transfer the sender could not pay *)
C23_Witness ==
    /\ result.op = "transfer" /\ result.kind = "BadFee"
    /\ balance_of(balances, result.args.from) < result.args.amount + stats.fee

(* C24: a transfer that passed validation and the fee check fails with    *)
(* InsufficientFunds{b}, b the sender's balance before the call, exactly   *)
(* when amount + fee exceeds the largest amount or b < amount + fee, a     *)
(* transfer to oneself included; the sum never wraps around.               *)
C24_InsufficientFunds ==
    [][(/\ result'.op = "transfer"
        /\ now' = now
        /\ Validation(ledger, now, result').kind = "Ok"
        /\ ~WrongFee(result', stats)) =>
          LET b == balance_of(balances, result'.args.from)
              amount == result'.args.amount
          IN  /\ (result'.kind = "InsufficientFunds")
                    <=> (amount + stats.fee > MaxTokens \/ b < amount + stats.fee)
              /\ result'.kind = "InsufficientFunds" =>
                    (result'.val = b /\ balances' = balances /\ ledger' = ledger)]_vars

(* a transfer to oneself of an amount the balance covers has been refused  *)
(* because the balance does not cover the fee as well                      *)
C24_Witness ==
    /\ result.op = "transfer" /\ result.kind = "InsufficientFunds"
    /\ result.args.from = result.args.to
    /\ result.args.amount + stats.fee <= MaxTokens
    /\ result.args.amount > 0
    /\ result.args.amount <= result.val
    /\ result.val < result.args.amount + stats.fee

(* C25: a transfer is rejected as Duplicate only because of an earlier    *)
(* transfer: the record named by duplicate_of has operation Transfer.      *)
C25_DuplicateOfTransfer ==
    [][(result'.op = "transfer" /\ now' = now /\ result'.kind = "Duplicate") =>
          \E k \in 1..Len(ledger) :
              /\ ledger[k].index = result'.val
              /\ ledger[k].operation = "Transfer"]_vars

(* C26: while the factory's token_wasm is not set, every incoming message *)
(* is rejected except a set_token_bytecode from the factory controller;    *)
(* once token_wasm is set every message is accepted.                       *)
C26_FactoryGate ==
    [][(Len(inbox') >= Len(inbox) /\ inspected' # NoMessage) =>
          /\ token_wasm = None =>
                (inspected'.accepted
                    <=> (/\ inspected'.method = "set_token_bytecode"
                         /\ inspected'.caller = controller))
          /\ token_wasm # None => inspected'.accepted
          /\ inspected'.accepted
                <=> inbox' = Append(inbox, Message(inspected'.method, inspected'.caller))
          /\ ~inspected'.accepted => inbox' = inbox]_vars

(* before the bytecode is set, a set_token_bytecode from someone who is    *)
(* not the controller has been rejected                                    *)
C26_Witness ==
    /\ token_wasm = None
    /\ inspected.method = "set_token_bytecode"
    /\ inspected.caller # controller
    /\ inspected.caller \in Principals
    /\ ~inspected.accepted

====
